---- MODULE Spec2Model ----
(***************************************************************************)
(* Model of sanic_restplus/model.py: ModelBase / RawModel / Model.         *)
(*                                                                         *)
(* A Model is a dict subclass (field name -> field descriptor object) with *)
(* a name and a parent list.  Field descriptors are heap objects with an   *)
(* identity: inherit() shares them, copy.deepcopy() duplicates them and    *)
(* RawModel._resolved both shares the parents' resolved descriptors and    *)
(* writes to one of them.  The resolution cache                            *)
(* RawModel._resolved.already_resolved is one process-wide dict keyed by   *)
(* id(model).                                                              *)
(***************************************************************************)
EXTENDS Integers, Sequences, FiniteSets, TLC

\* ---------------------------------------------------------------- bounds
MaxModels == 3
MaxObjs == 4
\* longest parent list passed to inherit / clone
MaxParents == 2
\* most mutations of a model after its definition
MaxEdits == 1

\* ------------------------------------------------------------- universes
\* Public names of the models, by creation order (names are unique within a
\* registration namespace).
ModelNames == <<"A", "B", "C", "D", "E">>
\* the field names, in sorted() order
FieldOrder == <<"x", "y">>
FieldNames == {FieldOrder[i] : i \in DOMAIN FieldOrder}
None == "None"
\* The descriptors a caller writes in a model definition.
Plain == [discriminator |-> FALSE, required |-> FALSE, default |-> None]
Discriminator == [discriminator |-> TRUE, required |-> TRUE, default |-> None]
Descriptors == {Plain, Discriminator}

\* a heap address holding no object
Free == [free |-> TRUE]
\* already_resolved.get(id(self), False) when the key is missing
NoEntry == [cached |-> FALSE, res |-> <<>>]

VARIABLES
    models,            \* Seq of [name, fields, parents]: the Model objects, index = id(model)
    heap,              \* object id -> field descriptor | Free
    already_resolved,  \* RawModel._resolved.already_resolved: id(model) -> mapping | NoEntry
    ret,               \* the last call and its outcome
    edits,             \* number of mutations of already defined models so far
    threads            \* the resolved accesses under way, one per thread

vars == <<models, heap, already_resolved, ret, edits, threads>>

\* ------------------------------------------------- dict (insertion ordered)
\* A dict is a sequence of [k, v] items with pairwise different keys.
Keys(d) == {d[i].k : i \in DOMAIN d}
Values(d) == {d[i].v : i \in DOMAIN d}
Has(d, k) == k \in Keys(d)
Get(d, k) == d[CHOOSE i \in DOMAIN d : d[i].k = k].v
\* d[k] = v : an existing key keeps its position
SetItem(d, k, v) ==
    IF Has(d, k)
    THEN [i \in DOMAIN d |-> IF d[i].k = k THEN [k |-> k, v |-> v] ELSE d[i]]
    ELSE Append(d, [k |-> k, v |-> v])
DelItem(d, k) == SelectSeq(d, LAMBDA it : it.k # k)
RECURSIVE Update(_, _)
\* d.update(other)
Update(d, other) ==
    IF other = <<>> THEN d
    ELSE Update(SetItem(d, Head(other).k, Head(other).v), Tail(other))

\* bool(model): a Model is a dict, so an empty one is falsy
Truthy(d) == Len(d) > 0

\* ------------------------------------------------------------------ heap
ObjIds == 1..MaxObjs
FreeIds(h) == {o \in ObjIds : h[o] = Free}
\* a fresh object: the lowest free address
Alloc(h) == CHOOSE o \in FreeIds(h) : \A p \in FreeIds(h) : o <= p

RECURSIVE DeepCopyItems(_, _, _)
\* [(key, copy.deepcopy(value, memo)) for key, value in self.items()]
\* acc = [heap, items]
DeepCopyItems(items, i, acc) ==
    IF i > Len(items) THEN acc
    ELSE LET o == Alloc(acc.heap)
         IN DeepCopyItems(items, i + 1,
               [heap |-> [acc.heap EXCEPT ![o] = acc.heap[items[i].v]],
                items |-> Append(acc.items, [k |-> items[i].k, v |-> o])])

\* RawModel.__deepcopy__: the fields of the copy (its name and parents are
\* those of self)
DeepCopy(fields, h) == DeepCopyItems(fields, 1, [heap |-> h, items |-> <<>>])

\* objects still referenced by a model or by a cached mapping
Reachable(ms, cache) ==
    UNION {Values(ms[m].fields) : m \in DOMAIN ms}
    \cup UNION {Values(cache[m].res) : m \in DOMAIN cache}
\* reference counting: unreferenced descriptors are released
Collect(h, ms, cache) ==
    [o \in ObjIds |-> IF o \in Reachable(ms, cache) THEN h[o] ELSE Free]

\* ------------------------------------------------------ RawModel._resolved
RECURSIVE resolved(_, _, _, _)
RECURSIVE CopyParentFields(_, _, _, _)
\* for parent in self.__parents__: res.update(parent.resolved)
\* acc = [heap, cache, raised, res]; an exception of parent.resolved propagates
CopyParentFields(ms, parents, i, acc) ==
    IF i > Len(parents) \/ acc.raised THEN acc
    ELSE LET r == resolved(ms, parents[i], acc.heap, acc.cache)
         IN CopyParentFields(ms, parents, i + 1,
               [heap |-> r.heap, cache |-> r.cache, raised |-> r.raised,
                res |-> IF r.raised THEN acc.res ELSE Update(acc.res, r.res)])

\* _resolved without the check on the number of discriminators
resolved_unchecked(ms, self, h, cache) ==
    IF Truthy(cache[self].res)
    THEN [heap |-> h, cache |-> cache, raised |-> FALSE, res |-> cache[self].res]
    ELSE LET copy == DeepCopy(ms[self].fields, h)
             merged == CopyParentFields(ms, ms[self].parents, 1,
                          [heap |-> copy.heap, cache |-> cache,
                           raised |-> FALSE, res |-> copy.items])
             candidates == SelectSeq(merged.res,
                              LAMBDA it : merged.heap[it.v].discriminator)
         IN [heap |-> IF Len(candidates) >= 1
                      THEN [merged.heap EXCEPT
                              ![candidates[1].v].default = ms[self].name]
                      ELSE merged.heap,
             cache |-> [merged.cache EXCEPT
                          ![self] = [cached |-> TRUE, res |-> merged.res]],
             raised |-> FALSE,
             res |-> merged.res]

\* self.resolved, as a function of the models, the heap and the cache; the
\* result holds the new heap and cache, whether ValueError was raised and
\* the returned mapping
resolved(ms, self, h, cache) ==
    IF Truthy(cache[self].res)
    THEN [heap |-> h, cache |-> cache, raised |-> FALSE, res |-> cache[self].res]
    ELSE LET copy == DeepCopy(ms[self].fields, h)
             merged == CopyParentFields(ms, ms[self].parents, 1,
                          [heap |-> copy.heap, cache |-> cache,
                           raised |-> FALSE, res |-> copy.items])
             candidates == SelectSeq(merged.res,
                              LAMBDA it : merged.heap[it.v].discriminator)
         IN IF merged.raised THEN merged
            ELSE IF Len(candidates) > 1 THEN [merged EXCEPT !.raised = TRUE]
            ELSE [heap |-> IF Len(candidates) = 1
                           THEN [merged.heap EXCEPT
                                   ![candidates[1].v].default = ms[self].name]
                           ELSE merged.heap,
                  cache |-> [merged.cache EXCEPT
                               ![self] = [cached |-> TRUE, res |-> merged.res]],
                  raised |-> FALSE,
                  res |-> merged.res]

\* ------------------------------------------------------ ModelBase.ancestors
RECURSIVE ancestors(_, _)
\* ancestors without the recursion into the parents: the direct parents only
ancestors_direct(ms, self) ==
    {ms[self].name} \cup {ms[ms[self].parents[i]].name : i \in DOMAIN ms[self].parents}

ancestors(ms, self) ==
    {ms[self].name}
    \cup UNION {ancestors(ms, ms[self].parents[i]) : i \in DOMAIN ms[self].parents}

\* ids of self and of its direct and transitive parents
RECURSIVE Lineage(_, _)
Lineage(ms, self) ==
    {self} \cup UNION {Lineage(ms, ms[self].parents[i]) : i \in DOMAIN ms[self].parents}

\* descriptors a resolution of self may have to allocate: a copy of the own
\* fields of every model of the lineage that has no usable cache entry
Need(ms, self, cache) ==
    LET RECURSIVE Sum(_)
        Sum(S) == IF S = {} THEN 0
                  ELSE LET m == CHOOSE m \in S : TRUE
                       IN (IF Truthy(cache[m].res) THEN 0 ELSE Len(ms[m].fields))
                          + Sum(S \ {m})
    IN IF Truthy(cache[self].res) THEN 0 ELSE Sum(Lineage(ms, self))

\* ----------------------------------------------------- ModelBase.get_parent
RECURSIVE get_parent(_, _, _)
RECURSIVE SearchParents(_, _, _, _)
\* the for loop of get_parent: an exception of parent.get_parent(name)
\* leaves the loop, a falsy found goes on with the next parent
SearchParents(ms, parents, i, name) ==
    IF i > Len(parents) THEN [raised |-> TRUE, found |-> 0]
    ELSE LET r == get_parent(ms, parents[i], name)
         IN IF r.raised THEN r
            ELSE IF Truthy(ms[r.found].fields) THEN r
            ELSE SearchParents(ms, parents, i + 1, name)

get_parent(ms, self, name) ==
    IF ms[self].name = name THEN [raised |-> FALSE, found |-> self]
    ELSE SearchParents(ms, ms[self].parents, 1, name)

\* ------------------------------------------------------------------ schema
\* A value that may be None is <<>> (None) or <<v>>.
\* utils.not_none: the dict without its None-valued keys
not_none(d) == [k \in {k \in DOMAIN d : d[k] # <<>>} |-> d[k][1]]

\* sorted(list(required))
Sorted(S) == SelectSeq(FieldOrder, LAMBDA n : n \in S)

\* field.__schema__ of the descriptor at address o
FieldSchema(h, o) == [required |-> h[o].required, default |-> h[o].default]

\* RawModel._schema: the last discriminator field in iteration order wins
_schema(ms, h, self) ==
    LET fields == ms[self].fields
        properties == [i \in DOMAIN fields |->
                          [k |-> fields[i].k, v |-> FieldSchema(h, fields[i].v)]]
        required == {fields[i].k : i \in {j \in DOMAIN fields : h[fields[j].v].required}}
        discs == SelectSeq(fields, LAMBDA it : h[it.v].discriminator)
        discriminator == IF discs = <<>> THEN <<>> ELSE <<discs[Len(discs)].k>>
    IN not_none(("x-mask" :> <<>>) @@
                [required |-> IF required = {} THEN <<>> ELSE <<Sorted(required)>>,
                 properties |-> <<properties>>,
                 discriminator |-> discriminator,
                 type |-> <<"object">>])

Ref(name) == "$ref" :> <<"#/definitions/", name>>

\* __schema__ with the own fragment put before the references
schema_own_first(ms, h, self) ==
    LET schema == _schema(ms, h, self)
        parents == ms[self].parents
    IN IF parents # <<>>
       THEN [allOf |-> <<schema>>
                       \o [i \in DOMAIN parents |-> Ref(ms[parents[i]].name)]]
       ELSE schema

\* ModelBase.__schema__
__schema__(ms, h, self) ==
    LET schema == _schema(ms, h, self)
        parents == ms[self].parents
    IN IF parents # <<>>
       THEN [allOf |-> [i \in DOMAIN parents |-> Ref(ms[parents[i]].name)]
                       \o <<schema>>]
       ELSE schema

\* ------------------------------------------------------------ constructors
\* dict literals {name: descriptor, ...} a caller may write
FieldDefs ==
    {<<>>}
    \cup {<<[k |-> n, d |-> d]>> : n \in FieldNames, d \in Descriptors}
    \cup {<<[k |-> FieldOrder[1], d |-> d1], [k |-> FieldOrder[2], d |-> d2]>> :
             d1 \in Descriptors, d2 \in Descriptors}

RECURSIVE NewItems(_, _, _)
\* the descriptors of a dict literal become new objects; acc = [heap, items]
NewItems(fd, i, acc) ==
    IF i > Len(fd) THEN acc
    ELSE LET o == Alloc(acc.heap)
         IN NewItems(fd, i + 1,
               [heap |-> [acc.heap EXCEPT ![o] = fd[i].d],
                items |-> Append(acc.items, [k |-> fd[i].k, v |-> o])])

\* An argument of inherit / clone is a model or a dict literal.
IsModel(a) == a.model # 0
ModelArg(m) == [model |-> m, dict |-> <<>>]
DictArg(fd) == [model |-> 0, dict |-> fd]
\* *parents: up to MaxParents models, then possibly a dict literal
ArgLists(ms) ==
    LET ids == DOMAIN ms
        modelLists == {l \in UNION {[1..n -> {ModelArg(m) : m \in ids}] : n \in 0..MaxParents} :
                          \A i, j \in DOMAIN l : i # j => l[i] # l[j]}
    IN modelLists \cup {l \o <<DictArg(fd)>> : l \in modelLists, fd \in FieldDefs}
DictCells(args) ==
    IF args # <<>> /\ ~IsModel(args[Len(args)]) THEN Len(args[Len(args)].dict) ELSE 0

\* ModelBase.__init__ / RawModel.__init__ / dict.__init__(fields)
Model(name, fields) == [name |-> name, fields |-> fields, parents |-> <<>>]

\* inherit with parents[:-1] replaced by parents[1:]
inherit_tail(ms, h, name, parents) ==
    LET last == parents[Len(parents)]
        made == IF IsModel(last)
                THEN [heap |-> h, items |-> ms[last.model].fields]
                ELSE NewItems(last.dict, 1, [heap |-> h, items |-> <<>>])
        model == Model(name, made.items)
        kept == SelectSeq(Tail(parents), IsModel)
    IN [heap |-> made.heap,
        model |-> [model EXCEPT !.parents = [i \in DOMAIN kept |-> kept[i].model]]]

\* ModelBase.inherit(cls, name, *parents); the result holds the new heap and
\* the new model
inherit(ms, h, name, parents) ==
    LET last == parents[Len(parents)]
        made == IF IsModel(last)
                THEN [heap |-> h, items |-> ms[last.model].fields]
                ELSE NewItems(last.dict, 1, [heap |-> h, items |-> <<>>])
        model == Model(name, made.items)
    IN [heap |-> made.heap,
        model |-> [model EXCEPT !.parents =
                      [i \in 1..(Len(parents) - 1) |-> parents[i].model]]]

RECURSIVE CloneFields(_, _, _, _)
\* for parent in parents: fields.update(copy.deepcopy(parent))
\* acc = [heap, items]
CloneFields(ms, parents, i, acc) ==
    IF i > Len(parents) THEN acc
    ELSE LET copy == IF IsModel(parents[i])
                     THEN DeepCopy(ms[parents[i].model].fields, acc.heap)
                     ELSE NewItems(parents[i].dict, 1, [heap |-> acc.heap, items |-> <<>>])
         IN CloneFields(ms, parents, i + 1,
               [heap |-> copy.heap, items |-> Update(acc.items, copy.items)])

\* RawModel.clone(cls, name, *parents)
clone(ms, h, name, parents) ==
    LET fields == CloneFields(ms, parents, 1, [heap |-> h, items |-> <<>>])
    IN [heap |-> fields.heap, model |-> Model(name, fields.items)]

\* most descriptors a clone of these sources allocates
RECURSIVE CloneNeed(_, _)
CloneNeed(ms, parents) ==
    IF parents = <<>> THEN 0
    ELSE (IF IsModel(Head(parents)) THEN Len(ms[Head(parents).model].fields)
          ELSE Len(Head(parents).dict))
         + CloneNeed(ms, Tail(parents))

\* ------------------------------------------------------------------- state
\* threads that access resolved at the same time
MaxThreads == 2
Threads == 1..MaxThreads
\* a thread that has not called resolved
Idle == [status |-> "idle", self |-> 0, stack |-> <<>>, raised |-> FALSE, result |-> <<>>]

NoCall == [op |-> "none", self |-> 0, args |-> <<>>, raised |-> FALSE, res |-> <<>>]
Call(op, self, args, raised, res) ==
    [op |-> op, self |-> self, args |-> args, raised |-> raised, res |-> res]

Init ==
    /\ models = <<>>
    /\ heap = [o \in ObjIds |-> Free]
    /\ already_resolved = [m \in {} |-> NoEntry]
    /\ ret = NoCall
    /\ edits = 0
    /\ threads = [t \in Threads |-> Idle]

NextName == ModelNames[Len(models) + 1]
Room(n) == Cardinality(FreeIds(heap)) >= n

\* the new model gets the next id; its key is missing from the cache
Register(made, op, self, args) ==
    LET ms == Append(models, made.model)
        cache == [m \in DOMAIN ms |->
                     IF m \in DOMAIN already_resolved THEN already_resolved[m] ELSE NoEntry]
    IN /\ models' = ms
       /\ already_resolved' = cache
       /\ heap' = Collect(made.heap, ms, cache)
       /\ ret' = Call(op, self, args, FALSE, <<>>)
       /\ UNCHANGED <<edits, threads>>

\* Model(name, {...})
NewModel ==
    \E fd \in FieldDefs :
        /\ Len(models) < MaxModels
        /\ Room(Len(fd))
        /\ LET made == NewItems(fd, 1, [heap |-> heap, items |-> <<>>])
           IN Register([heap |-> made.heap, model |-> Model(NextName, made.items)],
                       "Model", 0, <<DictArg(fd)>>)

\* Model.inherit(name, *parents)
Inherit ==
    \E parents \in ArgLists(models) :
        /\ Len(models) < MaxModels
        /\ parents # <<>>
        /\ Room(DictCells(parents))
        /\ Register(inherit(models, heap, NextName, parents), "inherit", 0, parents)

\* self.inherit(name, *parents): instance_inherit
InstanceInherit ==
    \E self \in DOMAIN models : \E parents \in ArgLists(models) :
        /\ Len(models) < MaxModels
        /\ Len(parents) < MaxParents + 1
        /\ \A i \in DOMAIN parents : parents[i] # ModelArg(self)
        /\ Room(DictCells(parents))
        /\ Register(inherit(models, heap, NextName, <<ModelArg(self)>> \o parents),
                    "instance_inherit", self, parents)

\* Model.clone(name, *parents)
Clone ==
    \E parents \in ArgLists(models) :
        /\ Len(models) < MaxModels
        /\ Room(CloneNeed(models, parents))
        /\ Register(clone(models, heap, NextName, parents), "clone", 0, parents)

\* self.clone(name, *parents): instance_clone
InstanceClone ==
    \E self \in DOMAIN models : \E parents \in ArgLists(models) :
        /\ Len(models) < MaxModels
        /\ Len(parents) < MaxParents + 1
        /\ \A i \in DOMAIN parents : parents[i] # ModelArg(self)
        /\ Room(CloneNeed(models, <<ModelArg(self)>> \o parents))
        /\ Register(clone(models, heap, NextName, <<ModelArg(self)>> \o parents),
                    "instance_clone", self, parents)

\* self.resolved
Resolved ==
    \E self \in DOMAIN models :
        /\ Room(Need(models, self, already_resolved))
        /\ LET r == resolved(models, self, heap, already_resolved)
           IN /\ already_resolved' = r.cache
              /\ heap' = Collect(r.heap, models, r.cache)
              /\ ret' = Call("resolved", self, <<>>, r.raised,
                              IF r.raised THEN <<>> ELSE r.res)
        /\ UNCHANGED <<models, edits, threads>>

\* self[name] = descriptor
SetField(self) ==
    \E n \in FieldNames : \E d \in Descriptors :
        /\ edits < MaxEdits
        /\ edits' = edits + 1
        /\ Room(1)
        /\ LET o == Alloc(heap)
               ms == [models EXCEPT ![self].fields = SetItem(@, n, o)]
           IN /\ models' = ms
              /\ heap' = Collect([heap EXCEPT ![o] = d], ms, already_resolved)
        /\ ret' = Call("__setitem__", self, <<n>>, FALSE, <<>>)
        /\ UNCHANGED <<already_resolved, threads>>

\* del self[name]
DelField(self) ==
    \E n \in Keys(models[self].fields) :
        /\ edits < MaxEdits
        /\ edits' = edits + 1
        /\ LET ms == [models EXCEPT ![self].fields = DelItem(@, n)]
           IN /\ models' = ms
              /\ heap' = Collect(heap, ms, already_resolved)
        /\ ret' = Call("__delitem__", self, <<n>>, FALSE, <<>>)
        /\ UNCHANGED <<already_resolved, threads>>

\* self.__parents__ = [...], the parent graph staying free of cycles
SetParents(self) ==
    \E n \in 0..MaxParents : \E ps \in [1..n -> DOMAIN models] :
        /\ edits < MaxEdits
        /\ edits' = edits + 1
        /\ ps # models[self].parents
        /\ \A i, j \in 1..n : i # j => ps[i] # ps[j]
        /\ \A i \in 1..n : self \notin Lineage(models, ps[i])
        /\ models' = [models EXCEPT ![self].parents = ps]
        /\ ret' = Call("__parents__", self, ps, FALSE, <<>>)
        /\ UNCHANGED <<heap, already_resolved, threads>>

\* self[name].default = value
SetDefault(self) ==
    \E n \in Keys(models[self].fields) :
        /\ edits < MaxEdits
        /\ edits' = edits + 1
        /\ heap[Get(models[self].fields, n)].default # "v"
        /\ heap' = [heap EXCEPT ![Get(models[self].fields, n)].default = "v"]
        /\ ret' = Call("default", self, <<n>>, FALSE, <<>>)
        /\ UNCHANGED <<models, already_resolved, threads>>

\* self.get_parent(name)
GetParent ==
    \E self \in DOMAIN models : \E i \in 1..MaxModels :
        /\ LET r == get_parent(models, self, ModelNames[i])
           IN ret' = Call("get_parent", self, <<ModelNames[i]>>, r.raised, r.found)
        /\ UNCHANGED <<models, heap, already_resolved, edits, threads>>

\* self.ancestors
Ancestors ==
    \E self \in DOMAIN models :
        /\ ret' = Call("ancestors", self, <<>>, FALSE, ancestors(models, self))
        /\ UNCHANGED <<models, heap, already_resolved, edits, threads>>

\* self.__schema__
Schema ==
    \E self \in DOMAIN models :
        /\ ret' = Call("__schema__", self, <<>>, FALSE, __schema__(models, heap, self))
        /\ UNCHANGED <<models, heap, already_resolved, edits, threads>>

\* definition and resolution
Next ==
    \/ NewModel
    \/ Inherit
    \/ Resolved

Spec == Init /\ [][Next]_vars

\* the model has been resolved: its key is in the cache
Used(self) == already_resolved[self].cached

\* definition, resolution, and mutation of the field set and of the parent
\* list of a model after its first use
NextMutate ==
    \/ NewModel
    \/ Inherit
    \/ Resolved
    \/ \E self \in DOMAIN models : Used(self) /\ SetField(self)
    \/ \E self \in DOMAIN models : Used(self) /\ DelField(self)
    \/ \E self \in DOMAIN models : Used(self) /\ SetParents(self)

SpecMutate == Init /\ [][NextMutate]_vars

\* definition, cloning and mutation of the fields
NextClone ==
    \/ NewModel
    \/ Inherit
    \/ Clone
    \/ InstanceClone
    \/ \E self \in DOMAIN models : SetField(self)
    \/ \E self \in DOMAIN models : DelField(self)
    \/ \E self \in DOMAIN models : SetDefault(self)

SpecClone == Init /\ [][NextClone]_vars

\* definition and read-only queries
NextQuery ==
    \/ NewModel
    \/ Inherit
    \/ InstanceInherit
    \/ GetParent
    \/ Ancestors
    \/ Schema

SpecQuery == Init /\ [][NextQuery]_vars

\* ------------------------------------------------------ ModelBase.validate
\* Strings that the code takes apart or puts together are sequences of
\* pieces: a piece is a character or a run of characters with no quote in it.
Quote == "'"
DQuote == "\""
IsRequired == " is a required property"
Chars(s) == {s[i] : i \in DOMAIN s}

\* repr(name): single quotes, unless the name holds a single quote and no
\* double quote
repr(name) ==
    IF Quote \in Chars(name) /\ DQuote \notin Chars(name)
    THEN <<DQuote>> \o name \o <<DQuote>>
    ELSE <<Quote>>
         \o [i \in DOMAIN name |-> IF name[i] = Quote THEN "\\'" ELSE name[i]]
         \o <<Quote>>

\* the property names a schema may require, and the elements of an error's
\* path: property names and array indexes
PropertyNames == {<<"x">>, <<"y">>, <<"o", Quote, "c">>}
Key(name) == [key |-> name]
Index(n) == [index |-> n]
str(p) == IF "index" \in DOMAIN p THEN <<CASE p.index = 0 -> "0" [] OTHER -> "1">> ELSE p.key
ErrorPaths == {<<>>, <<Key(<<"x">>), Index(0)>>}

\* The errors the validator reports (jsonschema.ValidationError: path,
\* validator, message).  A required violation names the missing property in
\* its message, "%r is a required property"; missing records that property.
RequiredErrors ==
    {[path |-> p, validator |-> "required", missing |-> n,
      message |-> repr(n) \o <<IsRequired>>] : p \in ErrorPaths, n \in PropertyNames}
OtherErrors ==
    {[path |-> p, validator |-> v, missing |-> <<>>,
      message |-> <<v, " violated">>] : p \in ErrorPaths, v \in {"type", "minLength"}}
ValidationErrors == RequiredErrors \cup OtherErrors
\* most errors of one document
MaxErrors == 2
ErrorLists == UNION {[1..n -> ValidationErrors] : n \in 0..MaxErrors}

\* RE_REQUIRED.match(message): u?'(?P<name>.*)' is a required property
\* anchored at the start; .* is greedy, so the name ends at the last quote
\* that the rest of the pattern follows
RE_REQUIRED(message) ==
    LET s == IF Len(message) >= 1 /\ message[1] = "u" THEN 2 ELSE 1
        ends == {j \in (s + 1)..(Len(message) - 1) :
                    message[j] = Quote /\ message[j + 1] = IsRequired}
        last == CHOOSE j \in ends : \A k \in ends : k <= j
    IN IF Len(message) >= s /\ message[s] = Quote /\ ends # {}
       THEN [matched |-> TRUE, name |-> SubSeq(message, s + 1, last - 1)]
       ELSE [matched |-> FALSE, name |-> <<>>]

RECURSIVE join(_)
\* '.'.join(parts)
join(parts) ==
    IF parts = <<>> THEN <<>>
    ELSE IF Len(parts) = 1 THEN Head(parts)
    ELSE Head(parts) \o <<".">> \o join(Tail(parts))

\* self.format_error(error): (key, message); .group on a failed match raises
\* AttributeError
format_error(error) ==
    LET m == RE_REQUIRED(error.message)
        path == IF error.validator = "required"
                THEN Append([i \in DOMAIN error.path |-> str(error.path[i])], m.name)
                ELSE [i \in DOMAIN error.path |-> str(error.path[i])]
    IN IF error.validator = "required" /\ ~m.matched
       THEN [raised |-> TRUE, key |-> <<>>, message |-> <<>>]
       ELSE [raised |-> FALSE, key |-> join(path), message |-> error.message]

RECURSIVE FormatErrors(_, _, _)
\* dict(self.format_error(e) for e in validator.iter_errors(data))
\* acc = [raised, errors]
FormatErrors(errors, i, acc) ==
    IF i > Len(errors) \/ acc.raised THEN acc
    ELSE LET f == format_error(errors[i])
         IN FormatErrors(errors, i + 1,
               [raised |-> f.raised,
                errors |-> IF f.raised THEN acc.errors
                           ELSE SetItem(acc.errors, f.key, f.message)])

Returned == [raised |-> "no", status |-> 0, message |-> "", errors |-> <<>>]
BAD_REQUEST == 400

\* self.validate(data), the validator reporting errors for the document
validate(errors) ==
    IF errors = <<>> THEN Returned
    ELSE LET f == FormatErrors(errors, 1, [raised |-> FALSE, errors |-> <<>>])
         IN IF f.raised
            THEN [Returned EXCEPT !.raised = "AttributeError"]
            ELSE [raised |-> "abort", status |-> BAD_REQUEST,
                  message |-> "Input payload validation failed",
                  errors |-> f.errors]

\* Draft4Validator(self.__schema__).iter_errors(data): the validator reports
\* what the schema of self and, through allOf, the schemas of its ancestors
\* state: at the top level a required violation names one of their required
\* fields, and an error below the top level lies under one of their fields
Reportable(ms, h, self, error) ==
    LET fields == UNION {{[k |-> ms[m].fields[i].k, o |-> ms[m].fields[i].v] :
                            i \in DOMAIN ms[m].fields} : m \in Lineage(ms, self)}
    IN IF error.path = <<>>
       THEN error.validator = "required" =>
               \E f \in fields : h[f.o].required /\ error.missing = <<f.k>>
       ELSE \E f \in fields : error.path[1] = Key(<<f.k>>)

\* self.validate(data).  A call leaves nothing behind but its outcome, so a
\* call right after another validate call reaches no state that the call
\* made in its place does not reach: only the latter is generated.
Validate ==
    /\ ret.op # "validate"
    /\ \E self \in DOMAIN models : \E errors \in ErrorLists :
        /\ \A i \in DOMAIN errors : Reportable(models, heap, self, errors[i])
        /\ LET r == validate(errors)
           IN ret' = Call("validate", self, errors, r.raised # "no", r)
        /\ UNCHANGED <<models, heap, already_resolved, edits, threads>>

\* definition and validation of documents
NextValidate ==
    \/ NewModel
    \/ Validate

SpecValidate == Init /\ [][NextValidate]_vars

\* ---------------------------------------------------------------- marshal
\* Values of the data and of the output: null, strings, integers, mappings
\* (insertion ordered dicts) and sequences.
VNull == [t |-> "null"]
VStr(s) == [t |-> "str", s |-> s]
VInt(n) == [t |-> "int", n |-> n]
VMap(items) == [t |-> "map", items |-> items]
VList(elems) == [t |-> "list", elems |-> elems]
Item(k, v) == [k |-> k, v |-> v]

\* Field descriptors of a marshalling schema.  attribute is the source key
\* override (None: the field name), default the value of an absent field.
Raw(attribute, default) ==
    [kind |-> "Raw", attribute |-> attribute, default |-> default]
String(attribute, default) ==
    [kind |-> "String", attribute |-> attribute, default |-> default]
List(container) ==
    [kind |-> "List", attribute |-> None, default |-> VNull, container |-> container]
Nested(nested, allow_null, skip_none) ==
    [kind |-> "Nested", attribute |-> None, default |-> VNull, nested |-> nested,
     allow_null |-> allow_null, skip_none |-> skip_none]
\* a mapping of fields written in place of a descriptor
Inline(fields) ==
    [kind |-> "Inline", attribute |-> None, default |-> VNull, fields |-> fields]

\* get_value(key, data): key lookup on a mapping; anything else has no such
\* key or attribute
get_value(key, data) ==
    IF data.t = "map" /\ Has(data.items, key) THEN Get(data.items, key) ELSE VNull

\* the text of a value written as repr writes it: a string is quoted again
text_repr(value) ==
    CASE value.t = "int" -> VStr(CASE value.n = 1 -> "1" [] OTHER -> "0")
      [] OTHER -> [t |-> "str", of |-> value]

\* String.format: the text of a value; a string is its own text
text(value) ==
    CASE value.t = "str" -> value
      [] value.t = "int" -> VStr(CASE value.n = 1 -> "1" [] OTHER -> "0")
      [] OTHER -> [t |-> "str", of |-> value]

RECURSIVE marshal(_, _, _)
RECURSIVE format(_, _, _)
RECURSIVE MarshalItems(_, _, _, _, _)

\* the value transform with a Nested descriptor marshalling its sub-object
\* under its own skip_none only
format_own_skip_none(d, value, skip_none) ==
    CASE d.kind = "Raw" -> value
      [] d.kind = "String" -> IF value = VNull THEN VNull ELSE text(value)
      [] d.kind = "List" ->
            IF value = VNull THEN VNull
            ELSE IF value.t = "list"
            THEN VList([i \in DOMAIN value.elems |->
                           format(d.container, value.elems[i], skip_none)])
            ELSE VList(<<format(d.container, value, skip_none)>>)
      [] d.kind = "Nested" ->
            IF value = VNull
            THEN IF d.allow_null THEN VNull
                 ELSE marshal(VMap(<<>>), d.nested, d.skip_none)
            ELSE marshal(value, d.nested, d.skip_none)

\* the value transform with a Nested descriptor answering null for every
\* null source, whatever allow_null says
format_null_nested(d, value, skip_none) ==
    CASE d.kind = "Raw" -> value
      [] d.kind = "String" -> IF value = VNull THEN VNull ELSE text(value)
      [] d.kind = "List" ->
            IF value = VNull THEN VNull
            ELSE IF value.t = "list"
            THEN VList([i \in DOMAIN value.elems |->
                           format(d.container, value.elems[i], skip_none)])
            ELSE VList(<<format(d.container, value, skip_none)>>)
      [] d.kind = "Nested" ->
            IF value = VNull THEN VNull
            ELSE marshal(value, d.nested, skip_none \/ d.skip_none)

\* the value transform of descriptor d on a source value
format(d, value, skip_none) ==
    CASE d.kind = "Raw" -> value
      [] d.kind = "String" -> IF value = VNull THEN VNull ELSE text(value)
      [] d.kind = "List" ->
            IF value = VNull THEN VNull
            ELSE IF value.t = "list"
            THEN VList([i \in DOMAIN value.elems |->
                           format(d.container, value.elems[i], skip_none)])
            ELSE VList(<<format(d.container, value, skip_none)>>)
      [] d.kind = "Nested" ->
            IF value = VNull
            THEN IF d.allow_null THEN VNull
                 ELSE marshal(VMap(<<>>), d.nested, skip_none \/ d.skip_none)
            ELSE marshal(value, d.nested, skip_none \/ d.skip_none)

\* field.output(key, data): the source value by attribute override or field
\* name, the default when it is absent or null, then the transform
output(d, key, data, skip_none) ==
    LET value == get_value(IF d.attribute = None THEN key ELSE d.attribute, data)
    IN format(d, IF value = VNull THEN d.default ELSE value, skip_none)

\* the fields of the output in schema order; with skip_none, a field whose
\* value is null or an empty mapping is left out
MarshalItems(data, fields, i, skip_none, acc) ==
    IF i > Len(fields) THEN acc
    ELSE LET d == fields[i].v
             v == IF d.kind = "Inline" THEN marshal(data, d.fields, skip_none)
                  ELSE output(d, fields[i].k, data, skip_none)
         IN MarshalItems(data, fields, i + 1, skip_none,
               IF skip_none /\ (v = VNull \/ v = VMap(<<>>)) THEN acc
               ELSE Append(acc, Item(fields[i].k, v)))

\* marshal(data, fields, skip_none=...): a sequence is marshalled element by
\* element
marshal(data, fields, skip_none) ==
    IF data.t = "list"
    THEN VList([i \in DOMAIN data.elems |-> marshal(data.elems[i], fields, skip_none)])
    ELSE VMap(MarshalItems(data, fields, 1, skip_none, <<>>))

\* ------------------------------------------------- marshal: the inputs
\* schemas of a nested object
NestedSchemas ==
    {<<Item("p", String(None, VNull))>>,
     <<Item("p", String(None, VNull)), Item("q", Raw(None, VStr("d")))>>,
     <<Item("p", Raw("q", VNull))>>}
\* descriptors of the first field and of the second field of a schema
FirstDescriptors ==
    {Raw(a, d) : a \in {None, "f", "g"}, d \in {VNull, VStr("d")}}
    \cup {String(a, d) : a \in {None, "g"}, d \in {VNull, VInt(1)}}
    \cup {List(String(None, VNull))}
    \cup {List(Nested(n, FALSE, FALSE)) : n \in NestedSchemas}
    \cup {Nested(n, a, s) : n \in NestedSchemas, a \in BOOLEAN, s \in BOOLEAN}
    \cup {Inline(<<Item("g", Raw(None, VNull))>>)}
SecondDescriptors ==
    {Raw(None, VNull), Raw("f", VNull), String(None, VStr("d"))}
Schemas ==
    {<<Item("f", d)>> : d \in FirstDescriptors}
    \cup {<<Item("g", d)>> : d \in SecondDescriptors}
    \cup {<<Item("f", d), Item("g", e)>> : d \in FirstDescriptors, e \in SecondDescriptors}

\* the source objects
Absent == [t |-> "absent"]
NestedData ==
    {VMap(<<>>), VMap(<<Item("p", VNull)>>), VMap(<<Item("p", VStr("a"))>>),
     VMap(<<Item("p", VStr("a")), Item("q", VNull)>>), VMap(<<Item("q", VInt(1))>>),
     VMap(<<Item("p", VInt(1)), Item("q", VMap(<<>>))>>)}
FieldValues ==
    {Absent, VNull, VStr("a"), VInt(1)}
    \cup NestedData
    \cup {VList(<<VStr("a"), VNull>>),
          VList(<<VMap(<<Item("p", VNull)>>)>>),
          VList(<<VMap(<<Item("p", VStr("a"))>>), VNull>>)}
Object(f, g) ==
    VMap((IF f = Absent THEN <<>> ELSE <<Item("f", f)>>)
         \o (IF g = Absent THEN <<>> ELSE <<Item("g", g)>>))
Objects == {Object(f, g) : f \in FieldValues, g \in FieldValues}
\* the data: one object, or a sequence of objects
Data ==
    Objects
    \cup {VList(<<Object(f, VNull), Object(VStr("a"), f)>>) : f \in NestedData}

\* marshal(data, fields, skip_none=skip_none).  A call leaves nothing behind
\* but its outcome, so every first call is made from the initial state.
Marshal ==
    /\ ret.op = "none"
    /\ \E data \in Data : \E fields \in Schemas : \E skip_none \in BOOLEAN :
          ret' = Call("marshal", 0, <<data, fields, skip_none>>, FALSE,
                      marshal(data, fields, skip_none))
    /\ UNCHANGED <<models, heap, already_resolved, edits, threads>>

\* marshal(out, fields, skip_none=skip_none) on the output of a marshal call
\* with the same schema
Remarshal ==
    /\ ret.op = "marshal"
    /\ \E out \in {ret.res} : \E fields \in {ret.args[2]} :
       \E skip_none \in {ret.args[3]} :
          ret' = Call("remarshal", 0, <<out, fields, skip_none>>, FALSE,
                      marshal(out, fields, skip_none))
    /\ UNCHANGED <<models, heap, already_resolved, edits, threads>>

NextMarshal ==
    \/ Marshal
    \/ Remarshal

SpecMarshal == Init /\ [][NextMarshal]_vars

\* ----------------------------------------------------- content negotiation
MediaType(type, subtype) == [type |-> type, subtype |-> subtype]
\* the media types a representation may be registered for
MediaTypes ==
    {MediaType("application", "json"), MediaType("text", "plain"),
     MediaType("text", "html")}
\* the media ranges of an Accept header
MediaRanges == MediaTypes \cup {MediaType("text", "*"), MediaType("*", "*")}
\* qualities, in tenths: q=0, q=0.3, q=1.0
Qualities == {0, 3, 10}
\* One comma-separated token of the header: a media range with its q
\* parameter, if it has one.  A header that is no list of media ranges
\* ("GarBagE") is Garbage.
Token(range, q) == [range |-> range, q |-> q]
Tokens == {Token(r, q) : r \in MediaRanges, q \in {<<>>} \cup {<<n>> : n \in Qualities}}
Garbage == <<[garbage |-> TRUE]>>
\* most tokens of a header
MaxEntries == 2
Headers == {Garbage} \cup UNION {[1..n -> Tokens] : n \in 1..MaxEntries}

\* the AcceptEntry of a token: a missing q is 1.0; an unparsable header has
\* no entry
AcceptEntry(token) ==
    [type |-> token.range.type, subtype |-> token.range.subtype,
     quality |-> IF token.q = <<>> THEN 10 ELSE token.q[1]]
parse(header) ==
    IF header = Garbage THEN <<>>
    ELSE [i \in DOMAIN header |-> AcceptEntry(header[i])]

\* every range as specific as any other
specificity_flat(entry) == 0

\* exact type/subtype beats type/* beats */*
specificity(entry) ==
    IF entry.type = "*" THEN 0 ELSE IF entry.subtype = "*" THEN 1 ELSE 2

\* an entry of any quality matching
matches_any_quality(entry, mediatype) ==
    \/ entry.type = "*"
    \/ entry.type = mediatype.type /\ entry.subtype \in {"*", mediatype.subtype}

\* the entry accepts the media type: exactly or by wildcard, never with q=0
matches(entry, mediatype) ==
    /\ entry.quality > 0
    /\ \/ entry.type = "*"
       \/ entry.type = mediatype.type /\ entry.subtype \in {"*", mediatype.subtype}

\* sort key order: quality descending, then specificity descending
Precedes(a, b) ==
    \/ a.quality > b.quality
    \/ a.quality = b.quality /\ specificity(a) > specificity(b)

RECURSIVE SortEntries(_)
\* stable sort: an entry goes before the first sorted entry it precedes, so
\* equal entries keep the header order
SortEntries(entries) ==
    IF entries = <<>> THEN <<>>
    ELSE LET sorted == SortEntries(SubSeq(entries, 1, Len(entries) - 1))
             e == entries[Len(entries)]
             before == {i \in DOMAIN sorted : Precedes(e, sorted[i])}
             at == IF before = {} THEN Len(sorted) + 1
                   ELSE CHOOSE i \in before : \A j \in before : i <= j
         IN SubSeq(sorted, 1, at - 1) \o <<e>> \o SubSeq(sorted, at, Len(sorted))

Selected(mediatype) == [status |-> "selected", mediatype |-> mediatype]
NotAcceptable == [status |-> "NotAcceptable", mediatype |-> <<>>]
RepresentationMisconfigured == [status |-> "InternalServerError", mediatype |-> <<>>]

RECURSIVE BestMatch(_, _, _)
\* the earliest registered representation accepted by the first sorted
\* entry that accepts any; <<>> when no entry does
BestMatch(sorted, i, representations) ==
    IF i > Len(sorted) THEN <<>>
    ELSE LET accepted == {r \in DOMAIN representations :
                             matches(sorted[i], representations[r])}
         IN IF accepted = {} THEN BestMatch(sorted, i + 1, representations)
            ELSE <<representations[CHOOSE r \in accepted : \A s \in accepted : r <= s]>>

\* select_representation for a non-empty Accept header; default_mediatype is
\* <<>> (None) or <<mediatype>>
select_representation(header, representations, default_mediatype) ==
    LET entries == parse(header)
        best == BestMatch(SortEntries(entries), 1, representations)
    IN IF entries = <<>> THEN NotAcceptable
       ELSE IF best # <<>> THEN Selected(best[1])
       ELSE IF default_mediatype = <<>> THEN NotAcceptable
       ELSE IF \E r \in DOMAIN representations :
                  representations[r] = default_mediatype[1]
       THEN Selected(default_mediatype[1])
       ELSE RepresentationMisconfigured

\* the registries: media types in registration order
Registries ==
    {reps \in UNION {[1..n -> MediaTypes] : n \in 0..Cardinality(MediaTypes)} :
        \A i, j \in DOMAIN reps : i # j => reps[i] # reps[j]}
DefaultMediatypes == {<<>>} \cup {<<m>> : m \in MediaTypes}

\* a request with a non-empty Accept header answered by an Api.  A request
\* leaves nothing behind but its outcome, so every request is made from the
\* initial state.
Negotiate ==
    /\ ret.op = "none"
    /\ \E header \in Headers : \E representations \in Registries :
       \E default_mediatype \in DefaultMediatypes :
          ret' = Call("select_representation", 0,
                      <<header, representations, default_mediatype>>, FALSE,
                      select_representation(header, representations, default_mediatype))
    /\ UNCHANGED <<models, heap, already_resolved, edits, threads>>

NextAccept ==
    \/ Negotiate

SpecAccept == Init /\ [][NextAccept]_vars

\* ------------------------------------- RawModel._resolved, thread by thread
\* A thread runs self.resolved statement by statement; parent.resolved is a
\* call, so a thread holds a stack of frames, the innermost last.  A frame:
\* the model being resolved, the statement to run next, the local res and
\* the index of the parent whose resolved is merged next.
Frame(self) == [self |-> self, pc |-> "check", res |-> <<>>, i |-> 1]
Top(t) == threads[t].stack[Len(threads[t].stack)]
Running(t, pc) == threads[t].status = "running" /\ Top(t).pc = pc
\* the stack with its innermost frame replaced
WithTop(t, frame) == [threads[t].stack EXCEPT ![Len(threads[t].stack)] = frame]

\* a mapping as its reader sees it: the keys with the descriptors they hold
Content(res, h) == [i \in DOMAIN res |-> [k |-> res[i].k, v |-> h[res[i].v]]]

\* descriptors referenced by the local res of a frame
Locals(ths) ==
    UNION {UNION {Values(ths[t].stack[f].res) : f \in DOMAIN ths[t].stack} : t \in Threads}
\* reference counting, the locals of the running threads included
CollectLocals(h, ms, cache, ths) ==
    [o \in ObjIds |-> IF o \in Reachable(ms, cache) \cup Locals(ths) THEN h[o] ELSE Free]

\* the cache before any resolution, and the heap holding the descriptors of
\* the models alone
NoCache(ms) == [m \in DOMAIN ms |-> NoEntry]
Definitions(ms, h) == Collect(h, ms, NoCache(ms))

\* return res: to the caller of self.resolved, or to the frame that runs
\* res.update(parent.resolved) and goes on with its next parent
Return(t, res, h, cache) ==
    LET stack == threads[t].stack
        n == Len(stack)
        ths == IF n = 1
               THEN [threads EXCEPT ![t].status = "done", ![t].stack = <<>>,
                                    ![t].result = Content(res, h)]
               ELSE [threads EXCEPT ![t].stack =
                        Append(SubSeq(stack, 1, n - 2),
                               [stack[n - 1] EXCEPT !.res = Update(@, res),
                                                    !.i = @ + 1])]
    IN /\ threads' = ths
       /\ already_resolved' = cache
       /\ heap' = CollectLocals(h, models, cache, ths)

\* a request handler reads self.resolved; the models are defined by then
Begin(t) ==
    \E self \in DOMAIN models :
        /\ threads[t].status = "idle"
        /\ Cardinality(FreeIds(Definitions(models, heap))) >= Need(models, self, NoCache(models))
        /\ threads' = [threads EXCEPT ![t] = [Idle EXCEPT !.status = "running",
                                                         !.self = self,
                                                         !.stack = <<Frame(self)>>]]
        /\ UNCHANGED <<models, heap, already_resolved, ret, edits>>

\* already_resolved = self._resolved.already_resolved.get(id(self), False)
\* if already_resolved: return already_resolved
Check(t) ==
    /\ Running(t, "check")
    /\ IF Truthy(already_resolved[Top(t).self].res)
       THEN Return(t, already_resolved[Top(t).self].res, heap, already_resolved)
       ELSE /\ threads' = [threads EXCEPT ![t].stack = WithTop(t, [Top(t) EXCEPT !.pc = "copy"])]
            /\ UNCHANGED <<heap, already_resolved>>
    /\ UNCHANGED <<models, ret, edits>>

\* res = copy.deepcopy(self)
Copy(t) ==
    /\ Running(t, "copy")
    /\ Room(Len(models[Top(t).self].fields))
    /\ LET copy == DeepCopy(models[Top(t).self].fields, heap)
       IN /\ threads' = [threads EXCEPT ![t].stack =
                            WithTop(t, [Top(t) EXCEPT !.pc = "parents", !.res = copy.items])]
          /\ heap' = copy.heap
    /\ UNCHANGED <<models, already_resolved, ret, edits>>

\* for parent in self.__parents__: the call of parent.resolved, or the end of
\* the loop
Parents(t) ==
    /\ Running(t, "parents")
    /\ LET parents == models[Top(t).self].parents
       IN threads' = [threads EXCEPT ![t].stack =
             IF Top(t).i <= Len(parents)
             THEN Append(threads[t].stack, Frame(parents[Top(t).i]))
             ELSE WithTop(t, [Top(t) EXCEPT !.pc = "candidates"])]
    /\ UNCHANGED <<models, heap, already_resolved, ret, edits>>

\* candidates = [...]; more than one: raise ValueError, which no frame
\* catches; exactly one: candidates[0].default = self.name
Candidates(t) ==
    /\ Running(t, "candidates")
    /\ LET candidates == SelectSeq(Top(t).res, LAMBDA it : heap[it.v].discriminator)
       IN IF Len(candidates) > 1
          THEN LET ths == [threads EXCEPT ![t].status = "done", ![t].stack = <<>>,
                                           ![t].raised = TRUE]
               IN /\ threads' = ths
                  /\ heap' = CollectLocals(heap, models, already_resolved, ths)
          ELSE /\ threads' = [threads EXCEPT ![t].stack =
                                 WithTop(t, [Top(t) EXCEPT !.pc = "store"])]
               /\ heap' = IF Len(candidates) = 1
                          THEN [heap EXCEPT ![candidates[1].v].default =
                                               models[Top(t).self].name]
                          ELSE heap
    /\ UNCHANGED <<models, already_resolved, ret, edits>>

\* self._resolved.already_resolved[id(self)] = res; return res
Store(t) ==
    /\ Running(t, "store")
    /\ Return(t, Top(t).res, heap,
              [already_resolved EXCEPT ![Top(t).self] = [cached |-> TRUE, res |-> Top(t).res]])
    /\ UNCHANGED <<models, ret, edits>>

\* the models are defined at startup, before the first request
Startup == \A t \in Threads : threads[t].status = "idle"

\* definition of the models, then resolved accesses from several threads
NextThreads ==
    \/ Startup /\ NewModel
    \/ Startup /\ Inherit
    \/ \E t \in Threads : Begin(t)
    \/ \E t \in Threads : Check(t)
    \/ \E t \in Threads : Copy(t)
    \/ \E t \in Threads : Parents(t)
    \/ \E t \in Threads : Candidates(t)
    \/ \E t \in Threads : Store(t)

SpecThreads == Init /\ [][NextThreads]_vars

TypeOK ==
    /\ Len(models) <= MaxModels
    /\ DOMAIN already_resolved = DOMAIN models
    /\ \A m \in DOMAIN models : Values(models[m].fields) \cap FreeIds(heap) = {}
    /\ \A m \in DOMAIN models : Values(already_resolved[m].res) \cap FreeIds(heap) = {}

\* =================================================================== claims

\* the models a call was given: *parents of inherit / clone, with self first
\* for the instance forms
CallArgs ==
    IF ret.op \in {"instance_inherit", "instance_clone"}
    THEN <<ModelArg(ret.self)>> \o ret.args
    ELSE ret.args
\* the model a constructor call returned
Made == models[Len(models)]
\* the items of a dict literal or of a model, as (name, descriptor value) pairs
ArgItems(a) ==
    IF IsModel(a)
    THEN [i \in DOMAIN models[a.model].fields |->
             [k |-> models[a.model].fields[i].k, d |-> heap[models[a.model].fields[i].v]]]
    ELSE a.dict
ItemsOf(fields) == [i \in DOMAIN fields |-> [k |-> fields[i].k, d |-> heap[fields[i].v]]]

\* the ids reachable from S along the parent lists, by iteration to a fixpoint
RECURSIVE Closure(_)
Closure(S) ==
    LET T == S \cup UNION {{models[m].parents[i] : i \in DOMAIN models[m].parents} : m \in S}
    IN IF T = S THEN S ELSE Closure(T)

\* the mapping a resolution builds from the present fields and parent lists
\* when nothing is cached: the own fields, then the flattened fields of each
\* parent written over them (the descriptors are those of the models)
RECURSIVE Flat(_)
RECURSIVE FlatParents(_, _, _)
FlatParents(parents, i, acc) ==
    IF i > Len(parents) THEN acc
    ELSE FlatParents(parents, i + 1, Update(acc, Flat(parents[i])))
Flat(m) == FlatParents(models[m].parents, 1, models[m].fields)
\* the discriminator fields of a mapping
Discs(d) == {i \in DOMAIN d : heap[d[i].v].discriminator}
\* the hierarchy of m holds more than one discriminator field
Conflict(m) == Cardinality(Discs(Flat(m))) > 1
\* the mapping an access to m.resolved returns in this state when the model
\* is cached
Cached(m) == already_resolved[m].res

\* ------------------------------------------------------------------- C1
\* C1: for a model with parents, resolved holds exactly the own field names
\* and those of each parent's resolved mapping, and under a name defined both
\* by the model and by a parent it holds the model's own descriptor, not the
\* parent's.
C1_OwnFieldsShadowInherited ==
    (ret.op = "resolved" /\ ~ret.raised /\ models[ret.self].parents # <<>>) =>
        LET own == models[ret.self].fields
            parents == models[ret.self].parents
            inherited == UNION {Keys(Cached(parents[i])) : i \in DOMAIN parents}
        IN /\ Keys(ret.res) = Keys(own) \cup inherited
           /\ \A n \in Keys(own) \cap inherited :
                 /\ \A i \in DOMAIN parents :
                       Get(ret.res, n) \notin Values(Cached(parents[i]))
                 /\ heap[Get(ret.res, n)].discriminator = heap[Get(own, n)].discriminator

\* ------------------------------------------------------------------- C2
\* C2: after any sequence of resolved accesses, in the resolved mapping of
\* every model the discriminator field, own or inherited, has the model's
\* name as default; also for a parent and for siblings after a child has
\* been resolved.
C2_DiscriminatorDefaultIsOwnName ==
    \A m \in DOMAIN models :
        \A i \in Discs(Cached(m)) : heap[Cached(m)[i].v].default = models[m].name

\* ------------------------------------------------------------------- C3
\* C3: no access to resolved returns or caches a mapping with more than one
\* discriminator field: whenever the resolved field set of the model holds
\* two or more discriminator fields the access raises instead of returning.
C3_NoTwoDiscriminators ==
    /\ \A m \in DOMAIN models : Cardinality(Discs(Cached(m))) <= 1
    /\ ret.op = "resolved" =>
          /\ ~ret.raised => Cardinality(Discs(ret.res)) <= 1
          /\ Conflict(ret.self) => ret.raised

C5_GetParentFindsEveryAncestor ==
    ret.op = "get_parent" =>
        IF ret.args[1] \in ancestors(models, ret.self)
        THEN ~ret.raised /\ models[ret.res].name = ret.args[1]
        ELSE ret.raised

\* ------------------------------------------------------------------- C6
\* C6: every resolved access reflects the present fields and parent lists,
\* also after a mutation that follows a first access, for the mutated model
\* and for the models inheriting from it: the mapping returned has the field
\* names of the present hierarchy, each with the discriminator flag of the
\* field it stands for.
C6_ResolvedReflectsMutation ==
    (ret.op = "resolved" /\ ~ret.raised) =>
        /\ Keys(ret.res) = Keys(Flat(ret.self))
        /\ \A n \in Keys(ret.res) \cap Keys(Flat(ret.self)) :
              heap[Get(ret.res, n)].discriminator
                  = heap[Get(Flat(ret.self), n)].discriminator

\* ------------------------------------------------------------------- C7
\* C7: inherit(name, *parents) returns a new model named name whose parent
\* list is parents[:-1] in order and whose own fields are exactly those of
\* parents[-1] (the same descriptors for a model, the literal's for a dict);
\* nothing of parents[:-1] is copied in.  self.inherit(name, *extra) is
\* inherit(name, self, *extra).
C7_InheritParentsAndFields ==
    ret.op \in {"inherit", "instance_inherit"} =>
        LET args == CallArgs
            last == args[Len(args)]
        IN /\ Made.name = ModelNames[Len(models)]
           /\ Len(Made.parents) = Len(args) - 1
           /\ \A i \in 1..(Len(args) - 1) : Made.parents[i] = args[i].model
           /\ ItemsOf(Made.fields) = ArgItems(last)
           /\ IsModel(last) => Made.fields = models[last.model].fields
           /\ \A i \in 1..(Len(args) - 1) :
                 Values(Made.fields) \cap Values(models[args[i].model].fields)
                     \subseteq (IF IsModel(last) THEN Values(models[last.model].fields) ELSE {})

\* an inherit with two parents that hold fields, and fields of its own
C7_Witness ==
    /\ ret.op \in {"inherit", "instance_inherit"}
    /\ Len(CallArgs) = 3
    /\ Made.parents = <<1, 2>>
    /\ Made.fields # <<>>
    /\ models[1].fields # <<>>
    /\ models[2].fields # <<>>
    /\ Keys(models[1].fields) # Keys(Made.fields)

\* ------------------------------------------------------------------- C8
\* the field names a source of clone holds, those it obtains through its
\* parents included
SourceKeys(a) == IF IsModel(a) THEN Keys(Flat(a.model)) ELSE Keys(a.dict)
\* the field names a source of clone holds itself
OwnKeys(a) == IF IsModel(a) THEN Keys(models[a.model].fields) ELSE Keys(a.dict)
\* the descriptor value a source holds under one of its own names
OwnValue(a, n) ==
    IF IsModel(a) THEN heap[Get(models[a.model].fields, n)]
    ELSE a.dict[CHOOSE i \in DOMAIN a.dict : a.dict[i].k = n].d

\* C8: clone(name, *sources) returns a model without parents that holds all
\* fields of every source, the inherited ones included, a later source
\* overriding an earlier one, each field a deep copy: no descriptor of the
\* clone is a descriptor of another model, so that no later change of a
\* source reaches the clone.
C8_CloneHoldsAllFieldsDeepCopied ==
    ret.op \in {"clone", "instance_clone"} =>
        LET args == CallArgs
        IN /\ Made.parents = <<>>
           /\ Keys(Made.fields) = UNION {SourceKeys(args[i]) : i \in DOMAIN args}
           /\ \A n \in Keys(Made.fields) : \A i \in DOMAIN args :
                 (/\ n \in OwnKeys(args[i])
                  /\ \A j \in DOMAIN args : j > i => n \notin SourceKeys(args[j]))
                 => heap[Get(Made.fields, n)] = OwnValue(args[i], n)
           /\ \A m \in 1..(Len(models) - 1) :
                 Values(Made.fields) \cap Values(models[m].fields) = {}

\* ------------------------------------------------------------------- C9
\* C9: __schema__ of a model with parents is {allOf: refs + [own fragment]},
\* one $ref per parent in parent-list order and the own fragment last; of a
\* model without parents it is the own fragment, with no allOf.
C9_SchemaAllOf ==
    ret.op = "__schema__" =>
        LET parents == models[ret.self].parents
            own == _schema(models, heap, ret.self)
        IN IF parents # <<>>
           THEN /\ DOMAIN ret.res = {"allOf"}
                /\ Len(ret.res.allOf) = Len(parents) + 1
                /\ \A i \in DOMAIN parents :
                      ret.res.allOf[i] = Ref(models[parents[i]].name)
                /\ ret.res.allOf[Len(parents) + 1] = own
           ELSE /\ ret.res = own
                /\ "allOf" \notin DOMAIN ret.res

\* the schema of a model with two parents and a discriminator of its own
C9_Witness ==
    /\ ret.op = "__schema__"
    /\ Len(models[ret.self].parents) = 2
    /\ "discriminator" \in DOMAIN ret.res.allOf[3]

\* ------------------------------------------------------------------ C10
\* C10: self.ancestors is the set of the names of self and of all its direct
\* and transitive parents; so it includes the ancestors of every parent,
\* and self.name.
C10_AncestorsClosure ==
    ret.op = "ancestors" =>
        /\ ret.res = {models[m].name : m \in Closure({ret.self})}
        /\ \A i \in DOMAIN models[ret.self].parents :
              ancestors(models, models[ret.self].parents[i]) \cup {models[ret.self].name}
                  \subseteq ret.res

\* the ancestors of a model whose parent has a parent
C10_Witness ==
    /\ ret.op = "ancestors"
    /\ \E i \in DOMAIN models[ret.self].parents :
          models[models[ret.self].parents[i]].parents # <<>>
    /\ Cardinality(ret.res) = 3

\* ------------------------------------------------------------------ C11
\* the key the claim gives an error: its path elements joined with '.', the
\* missing property appended for a required violation
ErrorKey(error) ==
    join([i \in DOMAIN error.path |-> str(error.path[i])]
         \o (IF error.validator = "required" THEN <<error.missing>> ELSE <<>>))

\* C11: validate returns silently when the validator reports no error; when
\* it reports errors it fails with BAD_REQUEST and the message "Input payload
\* validation failed", and the errors mapping holds, for every reported
\* error, the error's key mapped to that error's message.
C11_ValidateReportsEveryError ==
    ret.op = "validate" =>
        IF ret.args = <<>>
        THEN ret.res.raised = "no"
        ELSE /\ ret.res.raised = "abort"
             /\ ret.res.status = BAD_REQUEST
             /\ ret.res.message = "Input payload validation failed"
             /\ \A i \in DOMAIN ret.args :
                   /\ Has(ret.res.errors, ErrorKey(ret.args[i]))
                   /\ Get(ret.res.errors, ErrorKey(ret.args[i])) = ret.args[i].message

\* ------------------------------------------------------------------ C12
RECURSIVE NoNullField(_, _)
RECURSIVE NoNullIn(_, _)
\* no field of the schema is null in the output v of descriptor d
NoNullIn(v, d) ==
    CASE d.kind = "Nested" -> v = VNull \/ NoNullField(v, d.nested)
      [] d.kind = "Inline" -> NoNullField(v, d.fields)
      [] d.kind = "List" ->
            v = VNull \/ \A i \in DOMAIN v.elems : NoNullIn(v.elems[i], d.container)
      [] OTHER -> TRUE
\* no field of the schema is null in the output of marshal, at any depth: in
\* the mapping, in each element of a sequence, in every Nested / List result
NoNullField(out, fields) ==
    IF out.t = "list"
    THEN \A i \in DOMAIN out.elems : NoNullField(out.elems[i], fields)
    ELSE \A i \in DOMAIN out.items :
            /\ out.items[i].v # VNull
            /\ NoNullIn(out.items[i].v, Get(fields, out.items[i].k))

\* the output mappings of a call: the result, or its elements
Outputs(res) == IF res.t = "list" THEN {res.elems[i] : i \in DOMAIN res.elems} ELSE {res}

\* C12: the result of marshal(x, S, skip_none=True) holds no field whose
\* value is null, at any nesting depth; and a Nested descriptor with its own
\* skip_none=True drops the null fields of its sub-object also when the outer
\* flag is false.
C12_SkipNoneLeavesNoNull ==
    ret.op \in {"marshal", "remarshal"} =>
        /\ ret.args[3] => NoNullField(ret.res, ret.args[2])
        /\ \A i \in DOMAIN ret.args[2] : \A out \in Outputs(ret.res) :
              LET k == ret.args[2][i].k
                  d == ret.args[2][i].v
              IN (d.kind = "Nested" /\ d.skip_none /\ Has(out.items, k)) =>
                    NoNullIn(Get(out.items, k), d)

\* a sub-object that lost its null field and kept another one, under the
\* outer flag alone and under the descriptor's own flag alone
C12_Witness ==
    /\ ret.op = "marshal"
    /\ ret.res.t = "map"
    /\ ret.args[2][1].v.kind = "Nested"
    /\ ret.args[3] # ret.args[2][1].v.skip_none
    /\ get_value("f", ret.args[1]) = VMap(<<Item("p", VNull)>>)
    /\ Has(ret.res.items, "f")
    /\ Get(ret.res.items, "f") = VMap(<<Item("q", VStr("d"))>>)

\* ------------------------------------------------------------------ C13
\* the sub-object v has every field of the nested schema
HasEveryField(v, nested) ==
    /\ v.t = "map"
    /\ [i \in DOMAIN v.items |-> v.items[i].k] = [i \in DOMAIN nested |-> nested[i].k]
\* ... each set to null or to its descriptor's default
NullOrDefault(v, nested) ==
    \A i \in DOMAIN nested :
        Get(v.items, nested[i].k) \in {VNull, nested[i].v.default}

\* what the claim says of the Nested field (k, d) of the output mapping out
\* marshalled from the object data
NestedFieldAsClaimed(data, out, k, d) ==
    LET src == get_value(k, data)
        v == Get(out.items, k)
    IN /\ Has(out.items, k)
       /\ IF src = VNull
          THEN IF d.allow_null THEN v = VNull
               ELSE HasEveryField(v, d.nested) /\ NullOrDefault(v, d.nested)
          ELSE IF src.t = "list"
               THEN /\ v.t = "list"
                    /\ \A j \in DOMAIN v.elems : HasEveryField(v.elems[j], d.nested)
               ELSE HasEveryField(v, d.nested)

\* the calls on one object whose schema starts with a Nested field
NestedCall ==
    /\ ret.op = "marshal"
    /\ ret.args[1].t = "map"
    /\ ret.args[2][1].v.kind = "Nested"

RECURSIVE ReadsOwnKeys(_)
\* every field of the schema, at any depth, reads the key it writes: no
\* attribute override naming another key, no mapping of fields written in
\* place of a descriptor (its fields read the enclosing object)
ReadsOwnKey(k, d) ==
    /\ d.attribute \in {None, k}
    /\ CASE d.kind = "Inline" -> FALSE
         [] d.kind = "Nested" -> ReadsOwnKeys(d.nested)
         [] d.kind = "List" ->
               d.container.kind = "Nested" => ReadsOwnKeys(d.container.nested)
         [] OTHER -> TRUE
ReadsOwnKeys(fields) == \A i \in DOMAIN fields : ReadsOwnKey(fields[i].k, fields[i].v)

RECURSIVE NoDefaultSkipped(_, _)
\* no field with a default of its own is marshalled with skip_none in effect
\* (by the call's flag or by the flag of a Nested descriptor above it)
NoDefaultSkipped(fields, skip_none) ==
    \A i \in DOMAIN fields :
        LET d == fields[i].v
        IN /\ skip_none => d.default = VNull
           /\ CASE d.kind = "Nested" -> NoDefaultSkipped(d.nested, skip_none \/ d.skip_none)
                [] d.kind = "Inline" -> NoDefaultSkipped(d.fields, skip_none)
                [] d.kind = "List" ->
                      d.container.kind = "Nested" =>
                          NoDefaultSkipped(d.container.nested,
                                           skip_none \/ d.container.skip_none)
                [] OTHER -> TRUE

\* C14 (as claimed): marshal(marshal(x, S), S) = marshal(x, S) for every
\* schema S and object x.
C14_MarshalIdempotent ==
    (ret.op = "remarshal" /\ ~ret.args[3]) => ret.res = ret.args[1]

\* C14 (amended): marshal(marshal(x, S), S) = marshal(x, S), with or without
\* skip_none, for every schema whose fields all read the key they write and
\* in which no field with a default is marshalled under skip_none.
C14_MarshalIdempotentOnOwnKeys ==
    (/\ ret.op = "remarshal"
     /\ ReadsOwnKeys(ret.args[2])
     /\ NoDefaultSkipped(ret.args[2], ret.args[3])) => ret.res = ret.args[1]

\* a second pass over an output holding a converted integer, a default and a
\* nested sub-object
C14_Witness ==
    /\ ret.op = "remarshal"
    /\ ReadsOwnKeys(ret.args[2])
    /\ NoDefaultSkipped(ret.args[2], ret.args[3])
    /\ Len(ret.args[2]) = 2
    /\ ret.args[2][1].v.kind = "Nested"
    /\ ret.res.t = "map"
    /\ Has(ret.res.items, "f") /\ Has(ret.res.items, "g")
    /\ Get(ret.res.items, "f") = VMap(<<Item("p", VStr("a")), Item("q", VStr("d"))>>)
    /\ Get(ret.res.items, "g") = VStr("1")

\* ------------------------------------------------------------------ C15
\* the quality of the i-th entry of the header of the call, and its rank
\* above the j-th: quality, then specificity, then header order
EntryQuality(i) == IF ret.args[1][i].q = <<>> THEN 10 ELSE ret.args[1][i].q[1]
\* the number of wildcards of the i-th entry
EntryWidth(i) ==
    (IF ret.args[1][i].range.type = "*" THEN 1 ELSE 0)
    + (IF ret.args[1][i].range.subtype = "*" THEN 1 ELSE 0)
Outranks(i, j) ==
    \/ EntryQuality(i) > EntryQuality(j)
    \/ EntryQuality(i) = EntryQuality(j) /\ EntryWidth(i) < EntryWidth(j)
    \/ EntryQuality(i) = EntryQuality(j) /\ EntryWidth(i) = EntryWidth(j) /\ i < j
\* the i-th entry of the header accepts the r-th registered representation
Accepts(i, r) ==
    LET range == ret.args[1][i].range
        m == ret.args[2][r]
    IN /\ EntryQuality(i) # 0
       /\ \/ range = m
          \/ range.subtype = "*" /\ range.type \in {"*", m.type}
\* the entries of the header that accept a registered representation
Acceptable ==
    IF ret.args[1] = Garbage THEN {}
    ELSE {i \in DOMAIN ret.args[1] : \E r \in DOMAIN ret.args[2] : Accepts(i, r)}
\* the representation the claim selects: the earliest registered one accepted
\* by the highest-ranked acceptable entry
Claimed ==
    LET i == CHOOSE i \in Acceptable : \A j \in Acceptable \ {i} : Outranks(i, j)
        r == CHOOSE r \in DOMAIN ret.args[2] :
                 Accepts(i, r) /\ \A s \in 1..(r - 1) : ~Accepts(i, s)
    IN ret.args[2][r]

Sequential(self) ==
    LET r == resolved(models, self, Definitions(models, heap), NoCache(models))
    IN [raised |-> r.raised,
        result |-> IF r.raised THEN <<>> ELSE Content(r.res, r.heap)]

\* C16: concurrent first-time resolved accesses, interleaved in any way, are
\* tolerated: each access returns a mapping equal to the one a single
\* sequential resolution of its model returns; the computation changes no
\* state other than the cache entry of the model being resolved, so every
\* cache entry stays such a mapping for its model; and after an access the
\* cache holds one for the model accessed.
C16_ConcurrentResolvedTolerated ==
    /\ \A t \in Threads :
          threads[t].status = "done" =>
              /\ threads[t].raised = Sequential(threads[t].self).raised
              /\ threads[t].result = Sequential(threads[t].self).result
              /\ (~threads[t].raised /\ threads[t].result # <<>>) =>
                    already_resolved[threads[t].self].cached
    /\ \A m \in DOMAIN models :
          (already_resolved[m].cached
           /\ Cardinality(FreeIds(Definitions(models, heap)))
                 >= Need(models, m, NoCache(models))) =>
              Content(already_resolved[m].res, heap) = Sequential(m).result

====
